---------------------------- MODULE Spec2Model ----------------------------
(***************************************************************************)
(* Verification model of the uncertainty-aware evaluation loop             *)
(* (mmseg/apis/test.py: single_gpu_test, multi_gpu_test, np2tmp) and of    *)
(* the normalizing-flow decode head (mmseg/models/decode_heads/            *)
(* nf_bll_decode_head.py: NfBllBaseDecodeHead, NormalizingFlowDensity).    *)
(*                                                                         *)
(* and of the runner hooks (mmseg/core/hook/base_logger_hook.py,           *)
(* parse_epoch_to_loss_hook.py).                                           *)
(*                                                                         *)
(* Four specifications share the module:                                   *)
(*   Spec      the evaluation loop, one process per rank, from the call    *)
(*             to the returned result list;                                *)
(*   SpecFlow  the decode head and its flow density: construction, weight  *)
(*             loading, update_z0_params, sample_base, forward, log_prob;  *)
(*   SpecHead  the constructed head at work: cls_seg, forward_train,       *)
(*             forward_test, losses;                                       *)
(*   SpecHook  the logger hook's mode / epoch queries and                  *)
(*             ParseEpochToLossHook.                                       *)
(* Each leaves the others' variables untouched.                            *)
(***************************************************************************)
EXTENDS Integers, Sequences, FiniteSets, TLC

(***************************************************************************)
(* Bounds of the model.                                                    *)
(***************************************************************************)
MaxDataset == 3

MaxWorld == 2

MaxBatch == 2

MaxFlowLength == 2

MaxParam == 1

MaxTransformParam == 2

MaxSamples == 2

MaxEpoch == 2

MaxReports == 2

VARIABLES
    \* ---- arguments of single_gpu_test / multi_gpu_test ----
    variant,          \* "single" or "multi": which function is called
    efficient_test,   \* flag
    pre_eval,         \* flag
    format_only,      \* flag
    gpu_collect,      \* multi_gpu_test only
    show,             \* single_gpu_test only
    out_dir,          \* single_gpu_test only: "None" or a directory name
    batch_size,       \* data_loader.batch_size
    dataset_len,      \* len(data_loader.dataset)
    world_size,       \* get_dist_info()[1]; 1 for single_gpu_test
    has_ood,          \* hasattr(dataset, "ood_indices")
    \* ---- the model that is evaluated ----
    model,            \* the layers of the model object, outermost first:
                      \* "ddp" (module wrapper), "algo" (BaseAlgorithm), "seg" (segmentor)
    use_bags,         \* decode_head.use_bags
    loss_name,        \* decode_head.loss_decode.loss_name, as a sequence of name parts
    use_softplus,     \* decode_head.loss_decode.use_softplus
    pow_alpha,        \* decode_head.loss_decode.pow_alpha
    \* ---- state of the running call, per rank ----
    pc,               \* rank -> "start" | "loop" | "collect" | "done" | "rejected" | "error"
    err,              \* rank -> name of the exception that ended the call, or ""
    pos,              \* rank -> number of batches completed
    results,          \* rank -> the results accumulator
    inferred,         \* rank -> dataset indices the model has been run on, in order
    warned,           \* rank -> number of warnings.warn calls
    shown,            \* visual outputs handed to the visualization sink
    \* ---- the file system and the value handed back ----
    dirs,             \* directories that exist
    files,            \* dump files that exist: records [dir, name, content]
    returned,         \* the list returned on the coordinator (valid once pc[0] = "done")
    \* ---- the decode head and its flow density ----
    flow_type,        \* constructor argument flow_type
    flow_length,      \* constructor argument flow_length
    channels,         \* constructor argument channels
    num_classes,      \* constructor argument num_classes
    built,            \* "none" | "head" | "density" | "failed": what construction gave
    raised,           \* the exception construction ended with, or ""
    conv_seg,         \* [weight, bias]: the parameters of the head's conv_seg, flattened
    initial_p,        \* the head's initial_p
    density,          \* the NormalizingFlowDensity object: its attributes
    call,             \* the forward / log_prob call in progress
    ret,              \* what the last call returned
    synced,           \* update_z0_params has run since conv_seg was last changed from outside
    \* ---- the head at work ----
    nsamples_train,   \* self.nsamples_train
    nsamples_test,    \* self.nsamples_test
    sampler,          \* self.sampler is not None
    loss_decode,      \* self.loss_decode: [list, losses], the losses by their loss_name
    feats,            \* the feature map handed to the head: a batch of feature vectors
    gt_semantic_seg,  \* a batch of labels
    hret,             \* what the head's last call returned
    \* ---- the runner and the hooks ----
    runner_mode,      \* runner.mode
    runner_epoch,     \* runner.epoch
    log_output,       \* the keys of runner.log_buffer.output
    has_epoch_num,    \* hasattr(loss_decode, "epoch_num")
    epoch_num,        \* loss_decode.epoch_num
    total_epochs,     \* loss_decode.total_epochs
    reports,          \* number of print_log calls of after_epoch
    fresh,            \* before_train_epoch has run since runner.epoch last changed
    hook_ret          \* what the last hook call returned

evalVars == <<variant, efficient_test, pre_eval, format_only, gpu_collect, show,
              out_dir, batch_size, dataset_len, world_size, has_ood, model,
              use_bags, loss_name, use_softplus, pow_alpha, pc, err, pos, results, inferred,
              warned, shown, dirs, files, returned>>

cfgVars == <<variant, efficient_test, pre_eval, format_only, gpu_collect, show,
             out_dir, batch_size, dataset_len, world_size, has_ood, model,
             use_bags, loss_name, use_softplus, pow_alpha>>

flowVars == <<flow_type, flow_length, channels, num_classes, built, raised,
              conv_seg, initial_p, density, call, ret, synced>>

headVars == <<nsamples_train, nsamples_test, sampler, loss_decode, feats, gt_semantic_seg, hret>>

hookVars == <<runner_mode, runner_epoch, log_output, has_epoch_num, epoch_num,
              total_epochs, reports, fresh, hook_ret>>

vars == <<evalVars, flowVars, headVars, hookVars>>

(***************************************************************************)
(* Small helpers on sequences.                                             *)
(***************************************************************************)
Min(a, b) == IF a < b THEN a ELSE b

CeilDiv(a, b) == (a + b - 1) \div b

SeqMap(Op(_), s) == [j \in 1..Len(s) |-> Op(s[j])]

RECURSIVE Flatten(_)
Flatten(ss) == IF ss = <<>> THEN <<>> ELSE Head(ss) \o Flatten(Tail(ss))

Ranks == 0..(world_size - 1)

EFFICIENT_DIR == ".efficient_test"

(***************************************************************************)
(* The data loader.  single_gpu_test iterates a sequential sampler;        *)
(* multi_gpu_test iterates the rank's share of a DistributedSampler, which *)
(* pads the index list cyclically to a multiple of world_size and gives    *)
(* rank r the indices r, r + W, r + 2W, ...                                *)
(***************************************************************************)
SamplerIndices(r) ==
    IF variant = "single"
    THEN [j \in 1..dataset_len |-> j - 1]
    ELSE [j \in 1..CeilDiv(dataset_len, world_size) |->
              (r + (j - 1) * world_size) % dataset_len]

\* loader_indices = data_loader.batch_sampler: consecutive chunks of batch_size
loader_indices(r) ==
    LET idx == SamplerIndices(r)
        n   == Len(idx)
    IN  [k \in 1..CeilDiv(n, batch_size) |->
            SubSeq(idx, (k - 1) * batch_size + 1, Min(k * batch_size, n))]

(***************************************************************************)
(* The values the loop handles.                                            *)
(***************************************************************************)
\* one element of `result` as the model returns it: the prediction of sample i
Prediction(i) == [kind |-> "array", idx |-> i]

\* result, seg_logit = model(return_loss=False, **data)
model_call(batch_indices) ==
    [result    |-> SeqMap(Prediction, batch_indices),
     seg_logit |-> [logit_of |-> batch_indices]]

\* seg_gt = dataset.get_gt_seg_map_by_idx_and_reduce_zero_label(batch_indices[0])
seg_gt_of(batch_indices) == [gt_of |-> batch_indices[1]]

(***************************************************************************)
(* The mode flags.                                                         *)
(***************************************************************************)
CountTrue(s) == Cardinality({j \in 1..Len(s) : s[j]})

ModeFlags == <<efficient_test, pre_eval, format_only>>

\* assert [efficient_test, pre_eval, format_only].count(True) <= 1
ModesExclusive_TwoAllowed == CountTrue(ModeFlags) <= 2

ModesExclusive == CountTrue(ModeFlags) <= 1

\* assert data_loader.batch_size == 1: present in single_gpu_test only
BatchSizeAccepted == IF variant = "single" THEN batch_size = 1 ELSE TRUE

(***************************************************************************)
(* The model object and its wrappers.                                      *)
(***************************************************************************)
Models == {<<"seg">>, <<"ddp", "seg">>, <<"algo", "seg">>, <<"ddp", "algo", "seg">>}

LossNames == {<<"loss_", "edl">>, <<"loss_", "ce">>, <<"aux_", "loss_", "edl">>}

\* str.startswith
StartsWith(s, prefix) ==
    /\ Len(s) >= Len(prefix)
    /\ SubSeq(s, 1, Len(prefix)) = prefix

\* loss_decode.loss_name.startswith("loss_edl")
IsEdlLoss_Contains ==
    \E j \in 1..Len(loss_name) : StartsWith(SubSeq(loss_name, j, Len(loss_name)), <<"loss_", "edl">>)

IsEdlLoss == StartsWith(loss_name, <<"loss_", "edl">>)

\* is_module_wrapper(m)
is_module_wrapper(m) == Head(m) = "ddp"

\* isinstance(m, BaseAlgorithm)
is_algorithm(m) == Head(m) = "algo"

\* whether the attribute m.module exists
has_module(m) == Head(m) = "ddp"

\* whether the attribute m.decode_head exists: only the segmentor has one
has_decode_head(m) == Head(m) = "seg"

\* whether m.show_result exists: the segmentor's, or BaseAlgorithm's delegate
has_show_result(m) == Head(m) \in {"seg", "algo"}

\* _model: the model with a module wrapper and then an algorithm wrapper removed
Unwrapped(m) ==
    LET m1 == IF is_module_wrapper(m) THEN Tail(m) ELSE m
    IN  IF is_algorithm(m1) THEN Tail(m1) ELSE m1

(***************************************************************************)
(* np2tmp: dump an array to a file and return the file's name.  A negative *)
(* temp_file_name stands for None.  fs is the set of files that exist.     *)
(***************************************************************************)
\* tempfile.NamedTemporaryFile(suffix='.npy', delete=False, dir=tmpdir).name:
\* a name no file of tmpdir has
NamedTemporaryFile(tmpdir, fs) ==
    LET used == {f.name : f \in {g \in fs : g.dir = tmpdir}}
    IN  CHOOSE n \in 0..Cardinality(used) :
            /\ n \notin used
            /\ \A k \in 0..(n - 1) : k \in used

np2tmp_NoSave(array, temp_file_name, tmpdir, fs) ==
    LET name == IF temp_file_name < 0
                THEN NamedTemporaryFile(tmpdir, fs)
                ELSE temp_file_name
    IN  [name |-> [kind |-> "path", dir |-> tmpdir, name |-> name], fs |-> fs]

np2tmp(array, temp_file_name, tmpdir, fs) ==
    LET name == IF temp_file_name < 0
                THEN NamedTemporaryFile(tmpdir, fs)
                ELSE temp_file_name
        kept == {f \in fs : ~(f.dir = tmpdir /\ f.name = name)}
    IN  [name |-> [kind |-> "path", dir |-> tmpdir, name |-> name],
         fs   |-> kept \cup {[dir |-> tmpdir, name |-> name, content |-> array]}]

\* result = [np2tmp(_, tmpdir='.efficient_test') for _ in result]
RECURSIVE DumpAll(_, _)
DumpAll(result, fs) ==
    IF result = <<>>
    THEN [result |-> <<>>, fs |-> fs]
    ELSE LET one  == np2tmp(Head(result), -1, EFFICIENT_DIR, fs)
             rest == DumpAll(Tail(result), one.fs)
         IN  [result |-> <<one.name>> \o rest.result, fs |-> rest.fs]

(***************************************************************************)
(* The dataset's reducers (collaborators of the loop).                     *)
(***************************************************************************)
\* dataset.format_results(result, indices=batch_indices, **format_args)
format_results(result, indices) ==
    [j \in 1..Min(Len(result), Len(indices)) |->
        [kind |-> "formatted", idx |-> indices[j], from |-> result[j]]]

\* dataset.pre_eval(result, indices=batch_indices): one pre-result per (pred, index)
dataset_pre_eval(result, indices) ==
    [j \in 1..Min(Len(result), Len(indices)) |->
        [kind |-> "seg_pre", idx |-> indices[j], from |-> result[j]]]

\* dataset.pre_eval_custom(seg_logit, seg_gt, mode, ...): the call that is issued;
\* alpha is what the logit_fn handed over gives on seg_logit (<<>> when the
\* function is not an evidential one)
pre_eval_custom(seg_logit, seg_gt, mode, via, alpha) ==
    [kind |-> "aux_pre", mode |-> mode, logit_of |-> seg_logit.logit_of,
     gt_of |-> seg_gt.gt_of, via |-> via, alpha |-> alpha]

\* the values of a logit tensor, one per sample it was computed from
LogitValues(seg_logit) == [j \in 1..Len(seg_logit.logit_of) |-> seg_logit.logit_of[j] + 1]

\* loss_decode.logit2evidence(x): a positive, increasing function of the logits
logit2evidence(x) == [j \in 1..Len(x) |-> 2 * x[j]]

\* alpha = logit2evidence(seg_logit) + 1; if pow_alpha: alpha = alpha**2
\* (the visualization step, lines 184-186)
vis_alpha_NoPow(x) == [j \in 1..Len(x) |-> logit2evidence(x)[j] + 1]

vis_alpha(x) ==
    LET alpha == [j \in 1..Len(x) |-> logit2evidence(x)[j] + 1]
    IN  IF pow_alpha THEN [j \in 1..Len(x) |-> alpha[j] * alpha[j]] ELSE alpha

\* logit2alpha of single_gpu_test, lines 233-237
logit2alpha(x) ==
    LET ev == [j \in 1..Len(x) |-> logit2evidence(x)[j] + 1]
    IN  IF pow_alpha THEN [j \in 1..Len(x) |-> ev[j] * ev[j]] ELSE ev

\* logit2alpha of multi_gpu_test, lines 360-364
multi_logit2alpha(x) ==
    LET ev == [j \in 1..Len(x) |-> logit2evidence(x)[j] + 1]
    IN  IF pow_alpha THEN [j \in 1..Len(x) |-> ev[j] * ev[j]] ELSE ev

\* the probability transform handed to pre_eval_custom in the softmax branch
logit2prob == IF use_softplus THEN "softplus_normalized" ELSE "softmax"

(***************************************************************************)
(* The visualization step of single_gpu_test (if show or out_dir).  It     *)
(* yields the outputs handed to the sink before the step ended, and the    *)
(* exception that ended it ("" when it ran to completion).  Each output    *)
(* records whether the ignore mask was applied to it.                      *)
(***************************************************************************)
Visual(what, masked, idx, file) ==
    [what |-> what, masked |-> masked, idx |-> idx, file |-> file, alpha |-> <<>>]

\* a heat map computed from the evidential alpha
EdlVisual(what, masked, idx, file, alpha) ==
    [what |-> what, masked |-> masked, idx |-> idx, file |-> file, alpha |-> alpha]

\* the confidence / uncertainty heat maps
ConfidenceMaps(idx, out_file, seg_logit) ==
    IF use_bags
    THEN {}
    ELSE IF IsEdlLoss
         THEN LET alpha == vis_alpha(LogitValues(seg_logit))
              IN  {EdlVisual("edl_u", TRUE, idx, out_file, alpha),
                   EdlVisual("edl_diss", TRUE, idx, out_file, alpha),
                   EdlVisual("edl_conf", TRUE, idx, out_file, alpha)}
         ELSE {Visual("sm_conf", TRUE, idx, out_file)}

Visualize(batch_indices) ==
    LET idx      == batch_indices[1]
        out_file == IF out_dir # "None" THEN out_dir ELSE "None"
        pred     == {Visual("pred", TRUE, idx, out_file)}
        gt       == {Visual("gt", FALSE, idx, out_file)}
        edge     == {Visual("edge_mask", FALSE, idx, out_file)}
        ood      == IF has_ood THEN {Visual("ood_mask", FALSE, idx, out_file)} ELSE {}
    IN  IF ~(show \/ out_dir # "None")
        THEN [err |-> "", outs |-> {}]
        \* model.module.show_result(...)
        ELSE IF ~(has_module(model) /\ has_show_result(Tail(model)))
        THEN [err |-> "AttributeError", outs |-> {}]
        \* out_file[:-4] + "_gt" + out_file[-4:] with out_file = None
        ELSE IF out_file = "None"
        THEN [err |-> "TypeError", outs |-> pred]
        \* model.module.decode_head
        ELSE IF ~has_decode_head(Tail(model))
        THEN [err |-> "AttributeError", outs |-> pred \cup gt]
        ELSE [err |-> "", outs |-> pred \cup gt
                                    \cup ConfidenceMaps(idx, out_file,
                                                        model_call(batch_indices).seg_logit)
                                    \cup edge \cup ood]

(***************************************************************************)
(* The auxiliary pre-result of the pre_eval branch, in each variant.       *)
(***************************************************************************)
single_result_oth(seg_logit, seg_gt) ==
    LET _model == Unwrapped(model)
    IN  IF ~use_bags
        THEN IF IsEdlLoss
             THEN [err |-> "", val |-> pre_eval_custom(seg_logit, seg_gt, "edl", "logit2alpha",
                                                       logit2alpha(LogitValues(seg_logit)))]
             ELSE [err |-> "", val |-> pre_eval_custom(seg_logit, seg_gt, "softmax", logit2prob,
                                                       <<>>)]
        \* model.module.decode_head.use_bags, model.module.decode_head.bags_kwargs
        ELSE IF has_module(model) /\ has_decode_head(Tail(model))
             THEN [err |-> "", val |-> pre_eval_custom(seg_logit, seg_gt, "softmax", "bags", <<>>)]
             ELSE [err |-> "AttributeError", val |-> <<>>]

multi_result_oth(seg_logit, seg_gt) ==
    LET _model == Unwrapped(model)
    IN  IF ~use_bags
        THEN IF IsEdlLoss
             THEN [err |-> "", val |-> pre_eval_custom(seg_logit, seg_gt, "edl", "logit2alpha",
                                                       multi_logit2alpha(LogitValues(seg_logit)))]
             ELSE [err |-> "", val |-> pre_eval_custom(seg_logit, seg_gt, "softmax", logit2prob,
                                                       <<>>)]
        \* _model.decode_head.use_bags, _model.decode_head.bags_kwargs
        ELSE [err |-> "", val |-> pre_eval_custom(seg_logit, seg_gt, "softmax", "bags", <<>>)]

(***************************************************************************)
(* Steps 4 to 6 of a batch, common to both variants: efficient-mode spill, *)
(* formatting, pre-evaluation, and what is appended to results.            *)
(* oth is the variant's auxiliary pre-result.                              *)
(***************************************************************************)
Collected(out, batch_indices, oth) ==
    LET dumped == IF efficient_test
                  THEN DumpAll(out.result, files)
                  ELSE [result |-> out.result, fs |-> files]
        result == IF format_only
                  THEN format_results(dumped.result, batch_indices)
                  ELSE dumped.result
    IN  IF pre_eval
        THEN LET result_seg == dataset_pre_eval(result, batch_indices)[1]
             IN  IF oth.err # ""
                 THEN [err |-> oth.err, extend |-> <<>>, fs |-> dumped.fs]
                 ELSE [err |-> "", fs |-> dumped.fs,
                       extend |-> << [kind |-> "tuple", seg |-> result_seg, oth |-> oth.val] >>]
        ELSE [err |-> "", extend |-> result, fs |-> dumped.fs]

(***************************************************************************)
(* Result aggregation (mmcv.engine.collect_results_cpu / _gpu): the parts  *)
(* of the ranks, empty parts dropped, are interleaved round-robin (zip)    *)
(* and the list is cut to `size` entries.                                  *)
(***************************************************************************)
SeqMin(lens) ==
    IF lens = {} THEN 0 ELSE CHOOSE m \in lens : \A k \in lens : m <= k

Interleave(part_list) ==
    LET n == SeqMin({Len(part_list[i]) : i \in 1..Len(part_list)})
    IN  Flatten([j \in 1..n |-> [i \in 1..Len(part_list) |-> part_list[i][j]]])

NonEmpty(part) == Len(part) > 0

collect_results_cpu(result_part, size) ==
    LET part_list       == SelectSeq([i \in 1..world_size |-> result_part[i - 1]], NonEmpty)
        ordered_results == Interleave(part_list)
    IN  SubSeq(ordered_results, 1, Min(size, Len(ordered_results)))

collect_results_gpu(result_part, size) ==
    LET part_list       == SelectSeq([i \in 1..world_size |-> result_part[i - 1]], NonEmpty)
        ordered_results == Interleave(part_list)
    IN  SubSeq(ordered_results, 1, Min(size, Len(ordered_results)))

\* the size handed to the collectors: len(dataset)
collect_size_Local == Len(results[0])

collect_size == dataset_len

(***************************************************************************)
(* Initial state: the arguments of the call, nothing executed yet.         *)
(***************************************************************************)
InitEval ==
    /\ variant \in {"single", "multi"}
    /\ efficient_test \in BOOLEAN
    /\ pre_eval \in BOOLEAN
    /\ format_only \in BOOLEAN
    /\ gpu_collect \in (IF variant = "multi" THEN BOOLEAN ELSE {FALSE})
    /\ show \in (IF variant = "single" THEN BOOLEAN ELSE {FALSE})
    /\ out_dir \in (IF variant = "single" THEN {"None", "out"} ELSE {"None"})
    /\ has_ood \in (IF variant = "single" THEN BOOLEAN ELSE {FALSE})
    /\ batch_size \in 1..MaxBatch
    /\ dataset_len \in 1..MaxDataset
    /\ world_size \in (IF variant = "multi" THEN 1..MaxWorld ELSE {1})
    /\ model \in Models
    /\ use_bags \in BOOLEAN
    /\ loss_name \in LossNames
    /\ use_softplus \in BOOLEAN
    /\ pow_alpha \in (IF IsEdlLoss THEN BOOLEAN ELSE {FALSE})
    /\ pc = [r \in Ranks |-> "start"]
    /\ err = [r \in Ranks |-> ""]
    /\ pos = [r \in Ranks |-> 0]
    /\ results = [r \in Ranks |-> <<>>]
    /\ inferred = [r \in Ranks |-> <<>>]
    /\ warned = [r \in Ranks |-> 0]
    /\ shown = {}
    /\ dirs = {}
    /\ files = {}
    /\ returned = <<>>

(***************************************************************************)
(* single_gpu_test, lines 88-103: the warning and the working directory,   *)
(* the mode assertion, model.eval(), the batch-size assertion.             *)
(***************************************************************************)
single_gpu_test_entry ==
    /\ variant = "single"
    /\ pc[0] = "start"
    /\ warned' = IF efficient_test THEN [warned EXCEPT ![0] = @ + 1] ELSE warned
    /\ dirs' = IF efficient_test THEN dirs \cup {EFFICIENT_DIR} ELSE dirs
    /\ IF ~ModesExclusive
       THEN /\ pc' = [pc EXCEPT ![0] = "rejected"]
            /\ err' = [err EXCEPT ![0] = "AssertionError: mutually exclusive"]
       ELSE IF ~BatchSizeAccepted
       THEN /\ pc' = [pc EXCEPT ![0] = "rejected"]
            /\ err' = [err EXCEPT ![0] = "AssertionError: batch size"]
       ELSE /\ pc' = [pc EXCEPT ![0] = "loop"]
            /\ err' = err
    /\ UNCHANGED <<cfgVars, pos, results, inferred, shown, files, returned>>

(***************************************************************************)
(* single_gpu_test, lines 115-259: one iteration of the loop.              *)
(***************************************************************************)
single_gpu_test_batch ==
    /\ variant = "single"
    /\ pc[0] = "loop"
    /\ pos[0] < Len(loader_indices(0))
    /\ LET batch_indices == loader_indices(0)[pos[0] + 1]
           out    == model_call(batch_indices)
           seg_gt == seg_gt_of(batch_indices)
           vis    == Visualize(batch_indices)
           got    == Collected(out, batch_indices, single_result_oth(out.seg_logit, seg_gt))
       IN  /\ inferred' = [inferred EXCEPT ![0] = @ \o batch_indices]
           /\ shown' = shown \cup vis.outs
           /\ IF vis.err # ""
              THEN /\ pc' = [pc EXCEPT ![0] = "error"]
                   /\ err' = [err EXCEPT ![0] = vis.err]
                   /\ UNCHANGED <<files, results, pos>>
              ELSE IF got.err # ""
              THEN /\ pc' = [pc EXCEPT ![0] = "error"]
                   /\ err' = [err EXCEPT ![0] = got.err]
                   /\ files' = got.fs
                   /\ UNCHANGED <<results, pos>>
              ELSE /\ files' = got.fs
                   /\ results' = [results EXCEPT ![0] = @ \o got.extend]
                   /\ pos' = [pos EXCEPT ![0] = @ + 1]
                   /\ UNCHANGED <<pc, err>>
    /\ UNCHANGED <<cfgVars, warned, dirs, returned>>

\* single_gpu_test, line 261: return results
single_gpu_test_return ==
    /\ variant = "single"
    /\ pc[0] = "loop"
    /\ pos[0] = Len(loader_indices(0))
    /\ returned' = results[0]
    /\ pc' = [pc EXCEPT ![0] = "done"]
    /\ UNCHANGED <<cfgVars, err, pos, results, inferred, warned, shown, dirs, files>>

(***************************************************************************)
(* multi_gpu_test, lines 302-328, on rank r: the warning and the working   *)
(* directory, the mode assertion, model.eval().                            *)
(***************************************************************************)
multi_gpu_test_entry(r) ==
    /\ variant = "multi"
    /\ pc[r] = "start"
    /\ warned' = IF efficient_test THEN [warned EXCEPT ![r] = @ + 1] ELSE warned
    /\ dirs' = IF efficient_test THEN dirs \cup {EFFICIENT_DIR} ELSE dirs
    /\ IF ~ModesExclusive
       THEN /\ pc' = [pc EXCEPT ![r] = "rejected"]
            /\ err' = [err EXCEPT ![r] = "AssertionError: mutually exclusive"]
       ELSE IF ~BatchSizeAccepted
       THEN /\ pc' = [pc EXCEPT ![r] = "rejected"]
            /\ err' = [err EXCEPT ![r] = "AssertionError: batch size"]
       ELSE /\ pc' = [pc EXCEPT ![r] = "loop"]
            /\ err' = err
    /\ UNCHANGED <<cfgVars, pos, results, inferred, shown, files, returned>>

(***************************************************************************)
(* multi_gpu_test, lines 330-387, on rank r: one iteration of the loop.    *)
(* The rank reaches result collection after its last batch.                *)
(***************************************************************************)
multi_gpu_test_batch(r) ==
    /\ variant = "multi"
    /\ pc[r] = "loop"
    /\ pos[r] < Len(loader_indices(r))
    /\ LET batch_indices == loader_indices(r)[pos[r] + 1]
           out    == model_call(batch_indices)
           seg_gt == seg_gt_of(batch_indices)
           got    == Collected(out, batch_indices, multi_result_oth(out.seg_logit, seg_gt))
       IN  /\ inferred' = [inferred EXCEPT ![r] = @ \o batch_indices]
           /\ files' = got.fs
           /\ IF got.err # ""
              THEN /\ pc' = [pc EXCEPT ![r] = "error"]
                   /\ err' = [err EXCEPT ![r] = got.err]
                   /\ UNCHANGED <<results, pos>>
              ELSE /\ results' = [results EXCEPT ![r] = @ \o got.extend]
                   /\ pos' = [pos EXCEPT ![r] = @ + 1]
                   /\ pc' = [pc EXCEPT ![r] =
                                IF pos[r] + 1 = Len(loader_indices(r)) THEN "collect" ELSE "loop"]
                   /\ err' = err
    /\ UNCHANGED <<cfgVars, warned, shown, dirs, returned>>

(***************************************************************************)
(* multi_gpu_test, lines 389-394: result collection, a barrier of all      *)
(* ranks; the coordinator (rank 0) gets the merged list.                   *)
(***************************************************************************)
multi_gpu_test_collect ==
    /\ variant = "multi"
    /\ \A r \in Ranks : pc[r] = "collect"
    /\ returned' = IF gpu_collect
                   THEN collect_results_gpu(results, collect_size)
                   ELSE collect_results_cpu(results, collect_size)
    /\ pc' = [r \in Ranks |-> "done"]
    /\ UNCHANGED <<cfgVars, err, pos, results, inferred, warned, shown, dirs, files>>

(***************************************************************************)
(* The decode head (NfBllBaseDecodeHead) and its NormalizingFlowDensity.   *)
(* Tensors are sequences of integers.  The transforms of the chain are     *)
(* pyro's; each is kept as its kind and one integer parameter, and its     *)
(* application and log-Jacobian are integer stand-ins that depend on every *)
(* argument, so that a wrong argument or a wrong order changes the value.  *)
(***************************************************************************)
FlowTypes == {"planar_flow", "radial_flow", "iaf_flow", "real_nvp"}

ChannelChoices == {1, 2}

ClassChoices == {1}

RECURSIVE SumSeq(_)
SumSeq(v) == IF v = <<>> THEN 0 ELSE Head(v) + SumSeq(Tail(v))

Zeros(n) == [i \in 1..n |-> 0]

\* a conv_seg weight (or bias) tensor of n elements, flattened
Tensor(n, c) == [i \in 1..n |-> c * i]

\* the object that exists before / without a successful construction
NoDensity ==
    [dim |-> 0, flow_length |-> 0, flow_type |-> "", z0_mean |-> <<>>,
     has_mean |-> FALSE, mean |-> <<>>, transforms |-> <<>>]

Idle == [op |-> "idle", x |-> <<>>, z |-> <<>>, sum_log_jacobians |-> 0, k |-> 0]

NoReturn == [op |-> "none", x |-> <<>>, z |-> <<>>, sum_log_jacobians |-> 0,
             log_prob |-> 0, samples |-> <<>>, mean |-> <<>>]

\* the class of the transforms each flow_type builds
TransformKind(ft) ==
    IF ft = "radial_flow" THEN "Radial"
    ELSE IF ft = "planar_flow" THEN "Planar"
    ELSE "affine_autoregressive"

\* self.transforms = nn.Sequential(*(T(dim) for _ in range(flow_length)));
\* ps are the parameters the transforms are initialised with
flow_transforms_OneShort(ft, length, ps) ==
    [j \in 1..(IF length > 0 THEN length - 1 ELSE 0) |-> [kind |-> TransformKind(ft), p |-> ps[j]]]

flow_transforms(ft, length, ps) ==
    [j \in 1..length |-> [kind |-> TransformKind(ft), p |-> ps[j]]]

\* z_next = transform(z)
TransformApply(t, z) ==
    IF t.kind = "Planar" THEN [i \in 1..Len(z) |-> z[i] + t.p * SumSeq(z)]
    ELSE IF t.kind = "Radial" THEN [i \in 1..Len(z) |-> z[i] + t.p * (z[i] - 1)]
    ELSE [i \in 1..Len(z) |-> t.p + 2 * z[i]]

\* transform.log_abs_det_jacobian(x, y)
log_abs_det_jacobian(t, x, y) == t.p + 3 * SumSeq(x) + 7 * SumSeq(y)

\* the term one transform adds to sum_log_jacobians
jacobian_term_OnOutputOnly(t, z, z_next) == log_abs_det_jacobian(t, z_next, z_next)

jacobian_term(t, z, z_next) == log_abs_det_jacobian(t, z, z_next)

\* tdist.MultivariateNormal(mean, identity).log_prob(z), times 2, constant dropped
MVN_log_prob(mean, z) ==
    0 - SumSeq([i \in 1..Len(z) |-> (z[i] - mean[i]) * (z[i] - mean[i])])

\* torch.cat([conv_seg.weight.reshape(-1), conv_seg.bias.reshape(-1)])
FlatParams(conv) == conv.weight \o conv.bias

\* the mean of the base Gaussian that sample_base and log_prob build
BaseMean == density.z0_mean

\* NormalizingFlowDensity.__init__, lines 318-341, for a supported flow_type
NormalizingFlowDensity_init(dim, length, ft, ps) ==
    [dim |-> dim, flow_length |-> length, flow_type |-> ft,
     z0_mean |-> Zeros(dim), has_mean |-> FALSE, mean |-> <<>>,
     transforms |-> flow_transforms(ft, length, ps)]

\* values the model's inputs are drawn from
InputVectors(dim) == {[i \in 1..dim |-> e * i] : e \in -1..1}

InitFlow ==
    /\ flow_type \in FlowTypes
    /\ flow_length \in 0..MaxFlowLength
    /\ channels \in ChannelChoices
    /\ num_classes \in ClassChoices
    /\ built = "none"
    /\ raised = ""
    /\ conv_seg = [weight |-> <<>>, bias |-> <<>>]
    /\ initial_p = <<>>
    /\ density = NoDensity
    /\ call = Idle
    /\ ret = NoReturn
    /\ synced = FALSE

(***************************************************************************)
(* NfBllBaseDecodeHead.__init__, lines 62-132.  conv_seg is created with   *)
(* some initial parameters; the density is built for a supported           *)
(* flow_type, NotImplementedError is raised otherwise.                     *)
(***************************************************************************)
NfBllBaseDecodeHead_init ==
    /\ built = "none"
    /\ \E c \in 0..MaxParam, d \in 0..MaxParam,
          ps \in [1..flow_length -> 1..MaxTransformParam] :
        LET conv       == [weight |-> Tensor(channels * num_classes, c),
                           bias   |-> Tensor(num_classes, d)]
            latent_dim == Len(conv.weight) + Len(conv.bias)
        IN  IF flow_type \in {"iaf_flow", "planar_flow", "radial_flow"}
            THEN /\ built' = "head"
                 /\ conv_seg' = conv
                 /\ density' = NormalizingFlowDensity_init(latent_dim, flow_length, flow_type, ps)
                 /\ initial_p' = FlatParams(conv)
                 /\ UNCHANGED raised
            ELSE /\ built' = "failed"
                 /\ raised' = "NotImplementedError"
                 /\ UNCHANGED <<conv_seg, density, initial_p>>
    /\ UNCHANGED <<flow_type, flow_length, channels, num_classes, call, ret, synced>>

(***************************************************************************)
(* NormalizingFlowDensity(dim, flow_length, flow_type) constructed on its  *)
(* own, lines 318-341.                                                     *)
(***************************************************************************)
NormalizingFlowDensity_direct ==
    /\ built = "none"
    /\ \E ps \in [1..flow_length -> 1..MaxTransformParam] :
        IF flow_type \in {"radial_flow", "planar_flow", "iaf_flow"}
        THEN /\ built' = "density"
             /\ density' = NormalizingFlowDensity_init(channels * num_classes + num_classes,
                                                       flow_length, flow_type, ps)
             /\ UNCHANGED raised
        ELSE /\ built' = "failed"
             /\ raised' = "NotImplementedError"
             /\ UNCHANGED density
    /\ UNCHANGED <<flow_type, flow_length, channels, num_classes, conv_seg, initial_p,
                   call, ret, synced>>

\* conv_seg's weight and bias are changed from outside (a checkpoint is loaded,
\* an optimizer step is taken)
load_weights ==
    /\ built = "head"
    /\ call.op = "idle"
    /\ ret.op = "none"
    /\ \E c \in 0..MaxParam, d \in 0..MaxParam :
        /\ conv_seg' = [weight |-> Tensor(channels * num_classes, c),
                        bias   |-> Tensor(num_classes, d)]
        /\ conv_seg' # conv_seg
    /\ synced' = FALSE
    /\ UNCHANGED <<flow_type, flow_length, channels, num_classes, built, raised,
                   initial_p, density, call, ret>>

\* NfBllBaseDecodeHead.update_z0_params, lines 134-139
update_z0_params ==
    /\ built = "head"
    /\ call.op = "idle"
    /\ ret.op = "none"
    /\ initial_p' = FlatParams(conv_seg)
    /\ density' = [density EXCEPT !.has_mean = TRUE, !.mean = FlatParams(conv_seg)]
    /\ synced' = TRUE
    /\ UNCHANGED <<flow_type, flow_length, channels, num_classes, built, raised,
                   conv_seg, call, ret>>

\* NormalizingFlowDensity.sample_base(n), lines 357-358: n draws around the mean
sample_base ==
    /\ built \in {"head", "density"}
    /\ call.op = "idle"
    /\ ret.op = "none"
    /\ \E n \in 1..MaxSamples, noise \in InputVectors(density.dim) :
        ret' = [NoReturn EXCEPT
                   !.op = "sample_base",
                   !.mean = BaseMean,
                   !.samples = [j \in 1..n |->
                                   [i \in 1..density.dim |-> BaseMean[i] + j * noise[i]]]]
    /\ UNCHANGED <<flow_type, flow_length, channels, num_classes, built, raised,
                   conv_seg, initial_p, density, call, synced>>

\* a caller enters forward(z) or log_prob(x), lines 343-344 and 351-352
flow_call ==
    /\ built \in {"head", "density"}
    /\ call.op = "idle"
    /\ ret.op = "none"
    /\ \E op \in {"forward", "log_prob"}, x \in InputVectors(density.dim) :
        call' = [op |-> op, x |-> x, z |-> x, sum_log_jacobians |-> 0, k |-> 1]
    /\ UNCHANGED <<flow_type, flow_length, channels, num_classes, built, raised,
                   conv_seg, initial_p, density, ret, synced>>

\* NormalizingFlowDensity.forward, lines 345-348: one iteration of the loop
forward_step ==
    /\ call.op \in {"forward", "log_prob"}
    /\ call.k <= Len(density.transforms)
    /\ LET transform == density.transforms[call.k]
           z_next    == TransformApply(transform, call.z)
       IN  call' = [call EXCEPT
                       !.sum_log_jacobians = @ + jacobian_term(transform, call.z, z_next),
                       !.z = z_next,
                       !.k = @ + 1]
    /\ UNCHANGED <<flow_type, flow_length, channels, num_classes, built, raised,
                   conv_seg, initial_p, density, ret, synced>>

\* NormalizingFlowDensity.forward, line 349, and log_prob, lines 353-355
forward_return ==
    /\ call.op \in {"forward", "log_prob"}
    /\ call.k > Len(density.transforms)
    /\ ret' = IF call.op = "forward"
              THEN [NoReturn EXCEPT !.op = "forward", !.x = call.x, !.z = call.z,
                                    !.sum_log_jacobians = call.sum_log_jacobians]
              ELSE [NoReturn EXCEPT !.op = "log_prob", !.x = call.x, !.mean = BaseMean,
                                    !.log_prob = MVN_log_prob(BaseMean, call.z)
                                                 + call.sum_log_jacobians]
    /\ call' = Idle
    /\ UNCHANGED <<flow_type, flow_length, channels, num_classes, built, raised,
                   conv_seg, initial_p, density, synced>>

\* the caller has taken the returned value
take_result ==
    /\ ret.op # "none"
    /\ ret' = NoReturn
    /\ UNCHANGED <<flow_type, flow_length, channels, num_classes, built, raised,
                   conv_seg, initial_p, density, call, synced>>

(***************************************************************************)
(* The decode head at work: conv_seg_forward / cls_seg, forward_train,     *)
(* forward_test and losses.  A feature map is a batch of feature vectors   *)
(* (one pixel each, `channels` entries); logits are a batch of rows with   *)
(* num_classes entries; a label map is a batch of labels.  The concrete    *)
(* forward of the head's subclasses is not part of this file; it is taken  *)
(* as documented: forward(inputs, n_samples) draws n_samples parameter     *)
(* vectors, classifies with cls_seg and returns (logits,                   *)
(* sum_log_jacobians) with one Jacobian sum per sample.                    *)
(***************************************************************************)
Max(a, b) == IF a > b THEN a ELSE b

HeadClassChoices == {1, 2}

\* v[:k]
PySliceTo(v, k) == SubSeq(v, 1, Min(k, Len(v)))

\* v[-k:]
PySliceLast_FromStart(v, k) == SubSeq(v, 1, Min(k, Len(v)))

PySliceLast(v, k) == IF k = 0 THEN v ELSE SubSeq(v, Max(Len(v) - k, 0) + 1, Len(v))

\* self.w_numel, self.b_numel: conv_seg.weight.numel(), conv_seg.bias.numel()
w_numel == channels * num_classes

b_numel == num_classes

RECURSIVE Dot(_, _)
Dot(w, x) == IF w = <<>> \/ x = <<>> THEN 0 ELSE Head(w) * Head(x) + Dot(Tail(w), Tail(x))

\* F.conv2d(input=x, weight=weight.reshape(w_shape), bias=bias.reshape(b_shape))
\* with a 1x1 kernel, w_shape = (num_classes, channels, 1, 1): one row per
\* element of the batch
conv2d(x, weight, bias) ==
    [b \in 1..Len(x) |->
        [c \in 1..Len(bias) |->
            Dot(SubSeq(weight, (c - 1) * channels + 1, c * channels), x[b]) + bias[c]]]

\* conv_seg_forward(x, z), lines 141-147: z holds one parameter vector per sample
conv_seg_forward(x, z) ==
    Flatten([k \in 1..Len(z) |->
                conv2d(x, PySliceTo(z[k], w_numel), PySliceLast(z[k], b_numel))])

\* cls_seg(feat, z), lines 264-270 (dropout is None or the identity in eval mode)
cls_seg(feat, z) == conv_seg_forward(feat, z)

\* self.conv_seg(feat): the ordinary classification
conv_seg_plain(feat) == conv2d(feat, conv_seg.weight, conv_seg.bias)

\* the feature vector and the label of the b-th image of a batch
Feature(b) == [k \in 1..channels |-> b + k - 1]

Label(b) == b - 1

\* parameter vectors a draw from the flow can give: the current conv_seg
\* parameters, shifted
ZSample(e) == [i \in 1..(w_numel + b_numel) |-> FlatParams(conv_seg)[i] + e * i]

ZBatches(n) == [1..n -> {ZSample(e) : e \in 0..1}]

\* the subclass's forward(inputs, n_samples), as documented
head_forward(inputs, z, lj0) ==
    [seg_logits        |-> cls_seg(inputs, z),
     sum_log_jacobians |-> [k \in 1..Len(z) |-> lj0 + k]]

\* the default of forward's n_samples parameter, which forward_test relies on:
\* 0 stands for a parameter without default
ForwardDefaults == 0..MaxSamples

\* the loss names the head can be configured with, as sequences of name parts
HeadLossNames == {<<"loss_", "edl">>, <<"loss_", "edl", "_aux">>, <<"loss_", "ce">>}

\* loss_decode: a single loss module, or a ModuleList of one or two
LossConfigs ==
    {[list |-> FALSE, losses |-> <<a>>] : a \in HeadLossNames}
    \cup {[list |-> TRUE, losses |-> <<a>>] : a \in HeadLossNames}
    \cup {[list |-> TRUE, losses |-> <<a, b>>] : a \in HeadLossNames, b \in HeadLossNames}

\* loss_name.startswith("loss_edl")
IsEdlName(name) == StartsWith(name, <<"loss_", "edl">>)

\* seg_weight = None
NoWeight == [set |-> FALSE, logit |-> <<>>, label |-> <<>>]

\* self.sampler.sample(seg_logit, seg_label): the weight map, known by what it
\* was computed from
sampler_sample(seg_logit, seg_label) == [set |-> TRUE, logit |-> seg_logit, label |-> seg_label]

\* seg_label.squeeze(1).repeat(n, 1, 1)
label_repeat(seg_label, n) == Flatten([k \in 1..n |-> seg_label])

\* the terms a loss value is made of
LossTerm(j, name, seg_logit, seg_label, weight) ==
    [term |-> "loss", j |-> j, name |-> name, logit |-> seg_logit, label |-> seg_label,
     weight |-> weight]

MeanJacobian(sum_log_jacobians) ==
    [term |-> "mean_jacobian", j |-> 0, name |-> <<>>, logit |-> <<>>, label |-> sum_log_jacobians,
     weight |-> NoWeight]

Accuracy(seg_logit, seg_label) ==
    [term |-> "accuracy", j |-> 0, name |-> <<>>, logit |-> seg_logit, label |-> seg_label,
     weight |-> NoWeight]

\* loss[key] = value
DictPut(d, key, value) ==
    [x \in (DOMAIN d) \cup {key} |-> IF x = key THEN value ELSE d[x]]

\* lines 294-312: the loop over losses_decode from its j-th element on
RECURSIVE LossLoop(_, _, _, _, _, _, _)
LossLoop(j, loss, losses_decode, seg_logit, seg_label, seg_weight, sum_log_jacobians) ==
    IF j > Len(losses_decode)
    THEN [err |-> "", loss |-> loss]
    ELSE LET name == losses_decode[j]
         IN  IF name \notin DOMAIN loss
             THEN LET first == DictPut(loss, name,
                                   << LossTerm(j, name, seg_logit, seg_label, NoWeight),
                                      MeanJacobian(sum_log_jacobians) >>)
                      logged == IF IsEdlName(name)
                                THEN DictPut(first, <<"mean_jacobian_logdet">>,
                                             << MeanJacobian(sum_log_jacobians) >>)
                                ELSE first
                  IN  LossLoop(j + 1, logged, losses_decode, seg_logit, seg_label,
                               seg_weight, sum_log_jacobians)
             ELSE LET added == DictPut(loss, name,
                                   loss[name] \o
                                   << LossTerm(j, name, seg_logit, seg_label, seg_weight) >>)
                  IN  IF IsEdlName(name)
                      THEN [err |-> "NotImplementedError", loss |-> added]
                      ELSE LossLoop(j + 1, added, losses_decode, seg_logit, seg_label,
                                    seg_weight, sum_log_jacobians)

\* NfBllBaseDecodeHead.losses, lines 273-314.  The result holds the exception
\* ("" when a dict is returned), the dict, and what the sampler was handed.
losses(seg_logit, seg_label, sum_log_jacobians) ==
    LET seg_weight == IF sampler THEN sampler_sample(seg_logit, seg_label) ELSE NoWeight
        label      == label_repeat(seg_label, Len(sum_log_jacobians))
        acc        == [x \in {<<"acc_seg">>} |-> << Accuracy(seg_logit, label) >>]
        out        == LossLoop(1, acc, loss_decode.losses, seg_logit, label, seg_weight,
                               sum_log_jacobians)
    IN  [err |-> out.err, loss |-> out.loss, seg_weight |-> seg_weight]

NoHeadReturn ==
    [op |-> "none", err |-> "", n |-> 0, z |-> <<>>, logits |-> <<>>,
     with_jacobians |-> FALSE, sum_log_jacobians |-> <<>>,
     loss |-> <<>>, seg_weight |-> NoWeight]

InitHead ==
    /\ flow_type = "planar_flow"
    /\ flow_length = 0
    /\ channels \in ChannelChoices
    /\ num_classes \in HeadClassChoices
    /\ built = "head"
    /\ raised = ""
    /\ \E c \in 0..MaxParam :
        conv_seg = [weight |-> Tensor(channels * num_classes, c + 1),
                    bias   |-> Tensor(num_classes, c)]
    /\ initial_p = FlatParams(conv_seg)
    /\ density = NormalizingFlowDensity_init(channels * num_classes + num_classes,
                                             flow_length, flow_type, <<>>)
    /\ call = Idle
    /\ ret = NoReturn
    /\ synced = FALSE
    /\ nsamples_train \in 1..MaxSamples
    /\ nsamples_test = 1
    /\ sampler \in BOOLEAN
    /\ loss_decode \in LossConfigs
    /\ \E B \in 1..MaxBatch :
        /\ feats = [b \in 1..B |-> Feature(b)]
        /\ gt_semantic_seg = [b \in 1..B |-> Label(b)]
    /\ hret = NoHeadReturn

\* cls_seg(feat, z), lines 264-270, on n sampled parameter vectors
cls_seg_call ==
    /\ hret.op = "none"
    /\ \E n \in 1..MaxSamples : \E z \in ZBatches(n) :
        hret' = [NoHeadReturn EXCEPT !.op = "cls_seg", !.n = n, !.z = z,
                                     !.logits = cls_seg(feats, z)]
    /\ UNCHANGED <<nsamples_train, nsamples_test, sampler, loss_decode, feats,
                   gt_semantic_seg>>

\* forward_train, lines 227-245
forward_train ==
    /\ hret.op = "none"
    /\ \E z \in ZBatches(nsamples_train) :
        LET fwd == head_forward(feats, z, 0)
            out == losses(fwd.seg_logits, gt_semantic_seg, fwd.sum_log_jacobians)
        IN  hret' = [NoHeadReturn EXCEPT
                        !.op = "forward_train", !.n = nsamples_train, !.z = z,
                        !.err = out.err,
                        !.logits = fwd.seg_logits,
                        !.sum_log_jacobians = fwd.sum_log_jacobians,
                        !.loss = IF out.err = "" THEN out.loss ELSE <<>>,
                        !.seg_weight = out.seg_weight]
    /\ UNCHANGED <<nsamples_train, nsamples_test, sampler, loss_decode, feats,
                   gt_semantic_seg>>

\* forward_test, lines 247-262: return self.forward(inputs)
forward_test ==
    /\ hret.op = "none"
    /\ \E dflt \in ForwardDefaults : \E z \in ZBatches(dflt) :
        IF dflt = 0
        THEN hret' = [NoHeadReturn EXCEPT !.op = "forward_test", !.err = "TypeError"]
        ELSE LET fwd == head_forward(feats, z, 0)
             IN  hret' = [NoHeadReturn EXCEPT
                             !.op = "forward_test", !.n = dflt, !.z = z,
                             !.logits = fwd.seg_logits,
                             !.with_jacobians = TRUE,
                             !.sum_log_jacobians = fwd.sum_log_jacobians]
    /\ UNCHANGED <<nsamples_train, nsamples_test, sampler, loss_decode, feats,
                   gt_semantic_seg>>

\* the caller has taken what the head returned
head_take ==
    /\ hret.op # "none"
    /\ hret' = NoHeadReturn
    /\ UNCHANGED <<nsamples_train, nsamples_test, sampler, loss_decode, feats,
                   gt_semantic_seg>>

\* the head's training and test entry points, not in use
HeadParked ==
    /\ nsamples_train = 1
    /\ nsamples_test = 1
    /\ sampler = FALSE
    /\ loss_decode = [list |-> FALSE, losses |-> << <<"loss_", "ce">> >>]
    /\ feats = <<>>
    /\ gt_semantic_seg = <<>>
    /\ hret = NoHeadReturn

(***************************************************************************)
(* The runner hooks: LoggerHook_.get_mode / get_epoch                      *)
(* (mmseg/core/hook/base_logger_hook.py) and ParseEpochToLossHook          *)
(* (mmseg/core/hook/parse_epoch_to_loss_hook.py).  The runner is mmcv's;   *)
(* its model is the wrapped segmentor the training entry point builds, so  *)
(* runner.model.module.decode_head.loss_decode exists.                     *)
(***************************************************************************)
RunnerModes == {"train", "val", "test"}

LogKeys == {"time", "loss"}

NoHookReturn ==
    [op |-> "none", err |-> "", value |-> "", epoch |-> 0, reported |-> FALSE,
     before |-> <<>>]

\* what a hook call can see and change of the runner and the loss
RunnerState == <<runner_mode, runner_epoch, log_output, has_epoch_num, epoch_num, total_epochs>>

InitHook ==
    /\ runner_mode \in RunnerModes
    /\ runner_epoch = 0
    /\ log_output \in SUBSET LogKeys
    /\ has_epoch_num \in BOOLEAN
    /\ epoch_num \in (IF has_epoch_num THEN 0..MaxEpoch ELSE {0})
    /\ total_epochs = 0
    /\ reports = 0
    /\ fresh = FALSE
    /\ hook_ret = NoHookReturn

\* LoggerHook_.get_mode, lines 60-71
get_mode_LogKeyIgnored ==
    IF runner_mode = "train"
    THEN [err |-> "", value |-> "train"]
    ELSE IF runner_mode = "val"
    THEN [err |-> "", value |-> "val"]
    ELSE [err |-> "ValueError", value |-> ""]

get_mode ==
    IF runner_mode = "train"
    THEN (IF "time" \in log_output
          THEN [err |-> "", value |-> "train"]
          ELSE [err |-> "", value |-> "val"])
    ELSE IF runner_mode = "val"
    THEN [err |-> "", value |-> "val"]
    ELSE [err |-> "ValueError", value |-> ""]

\* LoggerHook_.get_epoch, lines 73-83
get_epoch ==
    IF runner_mode = "train"
    THEN [err |-> "", epoch |-> runner_epoch + 1]
    ELSE IF runner_mode = "val"
    THEN [err |-> "", epoch |-> runner_epoch]
    ELSE [err |-> "ValueError", epoch |-> 0]

\* a call of get_mode
get_mode_call ==
    /\ hook_ret.op = "none"
    /\ hook_ret' = [NoHookReturn EXCEPT !.op = "get_mode", !.err = get_mode.err,
                                        !.value = get_mode.value, !.before = RunnerState]
    /\ UNCHANGED <<runner_mode, runner_epoch, log_output, has_epoch_num, epoch_num,
                   total_epochs, reports, fresh>>

\* a call of get_epoch
get_epoch_call ==
    /\ hook_ret.op = "none"
    /\ hook_ret' = [NoHookReturn EXCEPT !.op = "get_epoch", !.err = get_epoch.err,
                                        !.epoch = get_epoch.epoch, !.before = RunnerState]
    /\ UNCHANGED <<runner_mode, runner_epoch, log_output, has_epoch_num, epoch_num,
                   total_epochs, reports, fresh>>

\* ParseEpochToLossHook.before_run, lines 8-10
before_run ==
    /\ hook_ret.op = "none"
    /\ total_epochs' = IF has_epoch_num THEN MaxEpoch ELSE total_epochs
    /\ hook_ret' = [NoHookReturn EXCEPT !.op = "before_run", !.before = RunnerState]
    /\ UNCHANGED <<runner_mode, runner_epoch, log_output, has_epoch_num, epoch_num,
                   reports, fresh>>

\* ParseEpochToLossHook.before_train_epoch, lines 12-14
before_train_epoch_Stale ==
    /\ hook_ret.op = "none"
    /\ epoch_num' = IF has_epoch_num /\ runner_epoch > 0 THEN runner_epoch - 1 ELSE epoch_num
    /\ fresh' = TRUE
    /\ hook_ret' = [NoHookReturn EXCEPT !.op = "before_train_epoch", !.before = RunnerState]
    /\ UNCHANGED <<runner_mode, runner_epoch, log_output, has_epoch_num, total_epochs,
                   reports>>

before_train_epoch ==
    /\ hook_ret.op = "none"
    /\ epoch_num' = IF has_epoch_num THEN runner_epoch ELSE epoch_num
    /\ fresh' = TRUE
    /\ hook_ret' = [NoHookReturn EXCEPT !.op = "before_train_epoch", !.before = RunnerState]
    /\ UNCHANGED <<runner_mode, runner_epoch, log_output, has_epoch_num, total_epochs,
                   reports>>

\* ParseEpochToLossHook.after_epoch, lines 16-19
after_epoch ==
    /\ hook_ret.op = "none"
    /\ reports < MaxReports
    /\ LET report == has_epoch_num /\ epoch_num # runner_epoch
       IN  /\ reports' = IF report THEN reports + 1 ELSE reports
           /\ hook_ret' = [NoHookReturn EXCEPT !.op = "after_epoch", !.reported = report,
                                               !.before = RunnerState]
    /\ UNCHANGED <<runner_mode, runner_epoch, log_output, has_epoch_num, epoch_num,
                   total_epochs, fresh>>

\* the runner moves on: the workflow switches mode, an epoch is completed, the
\* log buffer's output changes
runner_step ==
    /\ hook_ret.op = "none"
    /\ \/ /\ runner_mode' \in RunnerModes \ {runner_mode}
          /\ UNCHANGED <<runner_epoch, log_output, fresh>>
       \/ /\ runner_epoch < MaxEpoch
          /\ runner_epoch' = runner_epoch + 1
          /\ fresh' = FALSE
          /\ UNCHANGED <<runner_mode, log_output>>
       \/ /\ log_output' \in (SUBSET LogKeys) \ {log_output}
          /\ UNCHANGED <<runner_mode, runner_epoch, fresh>>
    /\ UNCHANGED <<has_epoch_num, epoch_num, total_epochs, reports, hook_ret>>

\* the hook call has returned
hook_take ==
    /\ hook_ret.op # "none"
    /\ hook_ret' = NoHookReturn
    /\ UNCHANGED <<runner_mode, runner_epoch, log_output, has_epoch_num, epoch_num,
                   total_epochs, reports, fresh>>

\* no runner
HookParked ==
    /\ runner_mode = "train"
    /\ runner_epoch = 0
    /\ log_output = {}
    /\ has_epoch_num = FALSE
    /\ epoch_num = 0
    /\ total_epochs = 0
    /\ reports = 0
    /\ fresh = FALSE
    /\ hook_ret = NoHookReturn

\* the evaluation loop, not running
EvalParked ==
    /\ variant = "single"
    /\ efficient_test = FALSE
    /\ pre_eval = FALSE
    /\ format_only = FALSE
    /\ gpu_collect = FALSE
    /\ show = FALSE
    /\ out_dir = "None"
    /\ has_ood = FALSE
    /\ batch_size = 1
    /\ dataset_len = 1
    /\ world_size = 1
    /\ model = <<"seg">>
    /\ use_bags = FALSE
    /\ loss_name = <<"loss_", "ce">>
    /\ use_softplus = FALSE
    /\ pow_alpha = FALSE
    /\ pc = [r \in {0} |-> "start"]
    /\ err = [r \in {0} |-> ""]
    /\ pos = [r \in {0} |-> 0]
    /\ results = [r \in {0} |-> <<>>]
    /\ inferred = [r \in {0} |-> <<>>]
    /\ warned = [r \in {0} |-> 0]
    /\ shown = {}
    /\ dirs = {}
    /\ files = {}
    /\ returned = <<>>

\* the decode head, not constructed
FlowParked ==
    /\ flow_type = "planar_flow"
    /\ flow_length = 0
    /\ channels = 1
    /\ num_classes = 1
    /\ built = "none"
    /\ raised = ""
    /\ conv_seg = [weight |-> <<>>, bias |-> <<>>]
    /\ initial_p = <<>>
    /\ density = NoDensity
    /\ call = Idle
    /\ ret = NoReturn
    /\ synced = FALSE

Init == InitEval /\ FlowParked /\ HeadParked /\ HookParked

Next ==
    \/ single_gpu_test_entry /\ UNCHANGED <<flowVars, headVars, hookVars>>
    \/ single_gpu_test_batch /\ UNCHANGED <<flowVars, headVars, hookVars>>
    \/ single_gpu_test_return /\ UNCHANGED <<flowVars, headVars, hookVars>>
    \/ \E r \in Ranks : multi_gpu_test_entry(r) /\ UNCHANGED <<flowVars, headVars, hookVars>>
    \/ \E r \in Ranks : multi_gpu_test_batch(r) /\ UNCHANGED <<flowVars, headVars, hookVars>>
    \/ multi_gpu_test_collect /\ UNCHANGED <<flowVars, headVars, hookVars>>

Spec == Init /\ [][Next]_vars

InitFlowSpec == InitFlow /\ EvalParked /\ HeadParked /\ HookParked

NextFlowSpec ==
    \/ NfBllBaseDecodeHead_init /\ UNCHANGED <<evalVars, headVars, hookVars>>
    \/ NormalizingFlowDensity_direct /\ UNCHANGED <<evalVars, headVars, hookVars>>
    \/ load_weights /\ UNCHANGED <<evalVars, headVars, hookVars>>
    \/ update_z0_params /\ UNCHANGED <<evalVars, headVars, hookVars>>
    \/ sample_base /\ UNCHANGED <<evalVars, headVars, hookVars>>
    \/ flow_call /\ UNCHANGED <<evalVars, headVars, hookVars>>
    \/ forward_step /\ UNCHANGED <<evalVars, headVars, hookVars>>
    \/ forward_return /\ UNCHANGED <<evalVars, headVars, hookVars>>
    \/ take_result /\ UNCHANGED <<evalVars, headVars, hookVars>>

SpecFlow == InitFlowSpec /\ [][NextFlowSpec]_vars

InitHeadSpec == InitHead /\ EvalParked /\ HookParked

NextHeadSpec ==
    \/ cls_seg_call /\ UNCHANGED <<evalVars, flowVars, hookVars>>
    \/ forward_train /\ UNCHANGED <<evalVars, flowVars, hookVars>>
    \/ forward_test /\ UNCHANGED <<evalVars, flowVars, hookVars>>
    \/ head_take /\ UNCHANGED <<evalVars, flowVars, hookVars>>

SpecHead == InitHeadSpec /\ [][NextHeadSpec]_vars

InitHookSpec == InitHook /\ EvalParked /\ FlowParked /\ HeadParked

NextHookSpec ==
    \/ get_mode_call /\ UNCHANGED <<evalVars, flowVars, headVars>>
    \/ get_epoch_call /\ UNCHANGED <<evalVars, flowVars, headVars>>
    \/ before_run /\ UNCHANGED <<evalVars, flowVars, headVars>>
    \/ before_train_epoch /\ UNCHANGED <<evalVars, flowVars, headVars>>
    \/ after_epoch /\ UNCHANGED <<evalVars, flowVars, headVars>>
    \/ runner_step /\ UNCHANGED <<evalVars, flowVars, headVars>>
    \/ hook_take /\ UNCHANGED <<evalVars, flowVars, headVars>>

SpecHook == InitHookSpec /\ [][NextHookSpec]_vars

(***************************************************************************)
(* Properties of the evaluation loop.                                      *)
(***************************************************************************)
TwoOrMoreModes == CountTrue(ModeFlags) >= 2

Running(r) == pc[r] \in {"loop", "collect", "done"}

\* the dump file a path names, if it exists
FilesAt(e) == {f \in files : f.dir = e.dir /\ f.name = e.name}

\* e is the result of dataset index k, in whichever form the active mode gives it
ResultFor(e, k) ==
    IF e.kind = "array" THEN e = Prediction(k)
    ELSE IF e.kind = "path" THEN \E f \in FilesAt(e) : f.content = Prediction(k)
    ELSE IF e.kind = "formatted" THEN e.idx = k /\ e.from = Prediction(k)
    ELSE /\ e.kind = "tuple"
         /\ e.seg.idx = k
         /\ e.seg.from = Prediction(k)
         /\ e.oth.gt_of = k
         /\ e.oth.logit_of = <<k>>

\* the returned list has one entry per dataset index, in dataset order
CompleteAndOrdered(list) ==
    /\ Len(list) = dataset_len
    /\ \A k \in 1..Len(list) : ResultFor(list[k], k - 1)

\* every rank's partial list holds one entry per index of its sampler share
PartsComplete == \A r \in Ranks : Len(results[r]) = Len(SamplerIndices(r))

(* C1: in both variants, when two or more of efficient_test, pre_eval and   *)
(* format_only are true the call ends with the mode assertion's error and   *)
(* the model has been run on no batch: nothing inferred, nothing appended,  *)
(* nothing returned.                                                        *)
C1_ModeConflictRejectedBeforeInference ==
    TwoOrMoreModes =>
        /\ returned = <<>>
        /\ \A r \in Ranks :
            /\ pc[r] \in {"start", "rejected"}
            /\ pc[r] = "rejected" => err[r] = "AssertionError: mutually exclusive"
            /\ inferred[r] = <<>>
            /\ results[r] = <<>>
            /\ pos[r] = 0

C1_Witness ==
    /\ TwoOrMoreModes
    /\ variant = "multi"
    /\ world_size = 2
    /\ \A r \in Ranks : pc[r] = "rejected"

(* C2: a call rejected for a mode conflict has left no side effect: the     *)
(* '.efficient_test' directory has not been created and no warning was      *)
(* issued.                                                                  *)
C2_RejectionHasNoSideEffects ==
    \A r \in Ranks :
        (TwoOrMoreModes /\ pc[r] = "rejected") =>
            /\ EFFICIENT_DIR \notin dirs
            /\ \A q \in Ranks : warned[q] = 0

(* C3: in both variants a loader whose batch_size is not 1 is rejected      *)
(* before any batch is processed: the model is run on no multi-sample      *)
(* batch and no result is computed from one.                                *)
C3_BatchSizeOneRequired ==
    batch_size # 1 =>
        \A r \in Ranks :
            /\ inferred[r] = <<>>
            /\ results[r] = <<>>
            /\ pc[r] \notin {"collect", "done"}

(* C4: CPU-mode aggregation at the end of multi_gpu_test: when every rank   *)
(* holds one entry per index of its (padded, round-robin) sampler share,    *)
(* the list returned on the coordinator has exactly len(dataset) entries    *)
(* and its k-th entry is the result of dataset index k.                     *)
C4_CpuCollectRebuildsDatasetOrder ==
    (variant = "multi" /\ ~gpu_collect /\ pc[0] = "done" /\ PartsComplete)
        => CompleteAndOrdered(returned)

C4_Witness ==
    /\ variant = "multi"
    /\ ~gpu_collect
    /\ pc[0] = "done"
    /\ PartsComplete
    /\ world_size = 2
    /\ dataset_len = 3
    /\ Len(returned) = 3

(* C5: result collection never hands back a short or reordered list: if a   *)
(* partial list misses entries the call fails, so whenever multi_gpu_test   *)
(* returns, the list is complete and in dataset order.                      *)
C5_CollectNeverReturnsShortList ==
    (variant = "multi" /\ pc[0] = "done") => CompleteAndOrdered(returned)

(* C6: with pre_eval, every sample the model was run on contributes exactly *)
(* one tuple (seg pre-result, aux pre-result), in processing order, the aux *)
(* pre-result computed as "edl" exactly when the head uses no bags and the  *)
(* loss name starts with "loss_edl", else as "softmax".                     *)
AuxMode == IF ~use_bags /\ StartsWith(loss_name, <<"loss_", "edl">>) THEN "edl" ELSE "softmax"

C6_OneTuplePerSample ==
    pre_eval =>
        \A r \in Ranks :
            Running(r) =>
                /\ Len(results[r]) = Len(inferred[r])
                /\ \A j \in 1..Len(results[r]) :
                    /\ results[r][j].kind = "tuple"
                    /\ results[r][j].seg.idx = inferred[r][j]
                    /\ results[r][j].oth.mode = AuxMode

(* C7: with efficient_test alone, every entry of the result list is a path  *)
(* naming an existing dump file under '.efficient_test' that holds the      *)
(* prediction; no array is an element of the list; there is one entry per   *)
(* prediction produced, and no two entries name the same file.              *)
IsExistingDump(e) ==
    /\ e.kind = "path"
    /\ e.dir = EFFICIENT_DIR
    /\ EFFICIENT_DIR \in dirs
    /\ FilesAt(e) # {}

C7_EfficientResultsArePaths ==
    (efficient_test /\ ~pre_eval /\ ~format_only) =>
        /\ \A r \in Ranks :
            /\ \A j \in 1..Len(results[r]) :
                /\ IsExistingDump(results[r][j])
                /\ ResultFor(results[r][j], inferred[r][j])
                /\ \A k \in 1..Len(results[r]) : results[r][k] = results[r][j] => k = j
            /\ Running(r) => Len(results[r]) = Len(inferred[r])
        /\ \A j \in 1..Len(returned) : IsExistingDump(returned[j])
        /\ (variant = "single" /\ pc[0] = "done") => Len(returned) = Len(inferred[0])

C7_Witness ==
    /\ efficient_test
    /\ variant = "single"
    /\ pc[0] = "done"
    /\ Len(returned) = 2
    /\ Cardinality(files) = 2

(***************************************************************************)
(* Properties of the decode head and its flow density.                     *)
(***************************************************************************)
SupportedFlowTypes == {"planar_flow", "radial_flow", "iaf_flow"}

\* the chain applied to x, and the sum of its log-Jacobian terms, each term taken
\* on the input and the output of its own transform
RECURSIVE ChainOutput(_, _)
ChainOutput(ts, x) ==
    IF ts = <<>> THEN x ELSE ChainOutput(Tail(ts), TransformApply(Head(ts), x))

RECURSIVE ChainLogJacobian(_, _)
ChainLogJacobian(ts, x) ==
    IF ts = <<>>
    THEN 0
    ELSE LET y == TransformApply(Head(ts), x)
         IN  log_abs_det_jacobian(Head(ts), x, y) + ChainLogJacobian(Tail(ts), y)

(* C8: once update_z0_params has run (after construction or after an        *)
(* external change of conv_seg), the mean of the base Gaussian that         *)
(* sample_base and log_prob use equals the head's initial_p, which is the   *)
(* current flattened conv_seg parameters (weight, then bias); and whatever  *)
(* sample_base or log_prob then returns was computed with that mean.        *)
C8_BaseMeanFollowsClassifier ==
    (built = "head" /\ synced) =>
        /\ initial_p = FlatParams(conv_seg)
        /\ BaseMean = initial_p
        /\ ret.op \in {"sample_base", "log_prob"} => ret.mean = initial_p

(* C9: construction of the head, or of the density on its own, with a       *)
(* flow_type other than planar_flow, radial_flow, iaf_flow ends with        *)
(* NotImplementedError and leaves no object; with one of the three it       *)
(* succeeds and the chain holds exactly flow_length transforms, all of the  *)
(* kind the flow_type names.                                                *)
C9_FlowTypeDecidesConstruction ==
    built # "none" =>
        IF flow_type \in SupportedFlowTypes
        THEN /\ built \in {"head", "density"}
             /\ raised = ""
             /\ Len(density.transforms) = flow_length
             /\ \A j \in 1..Len(density.transforms) :
                    density.transforms[j].kind =
                        (CASE flow_type = "planar_flow" -> "Planar"
                           [] flow_type = "radial_flow" -> "Radial"
                           [] flow_type = "iaf_flow" -> "affine_autoregressive")
        ELSE /\ built = "failed"
             /\ raised = "NotImplementedError"
             /\ density = NoDensity
             /\ call = Idle
             /\ ret = NoReturn

C9_Witness ==
    /\ built = "head"
    /\ flow_type = "iaf_flow"
    /\ flow_length = 2
    /\ Len(density.transforms) = 2

(* C10: forward applies the transforms in construction order, takes each    *)
(* log-Jacobian on that transform's own input and output and returns their  *)
(* sum; log_prob(x) is the base log-density of forward(x)'s output plus     *)
(* that sum; with an empty chain forward returns x and 0.                   *)
C10_ChangeOfVariables ==
    /\ call.op \in {"forward", "log_prob"} =>
        /\ call.z = ChainOutput(SubSeq(density.transforms, 1, call.k - 1), call.x)
        /\ call.sum_log_jacobians =
               ChainLogJacobian(SubSeq(density.transforms, 1, call.k - 1), call.x)
    /\ ret.op = "forward" =>
        /\ ret.z = ChainOutput(density.transforms, ret.x)
        /\ ret.sum_log_jacobians = ChainLogJacobian(density.transforms, ret.x)
        /\ density.transforms = <<>> => (ret.z = ret.x /\ ret.sum_log_jacobians = 0)
    /\ ret.op = "log_prob" =>
        ret.log_prob = MVN_log_prob(BaseMean, ChainOutput(density.transforms, ret.x))
                       + ChainLogJacobian(density.transforms, ret.x)

C10_Witness ==
    /\ ret.op = "log_prob"
    /\ Len(density.transforms) = 2
    /\ density.transforms[1] # density.transforms[2]
    /\ ret.x # Zeros(density.dim)
    /\ ret.log_prob # 0

(***************************************************************************)
(* Properties of the head at work.                                         *)
(***************************************************************************)
\* the sample and the image that logits row i belongs to, for a batch of B images
SampleOfRow(i, B) == ((i - 1) \div B) + 1

ImageOfRow(i, B) == ((i - 1) % B) + 1

\* the logits row of one image under one parameter vector: weight part first,
\* bias part after it
RowUnder(zk, feat) ==
    [c \in 1..num_classes |->
        Dot(SubSeq(zk, (c - 1) * channels + 1, c * channels), feat)
        + zk[channels * num_classes + c]]

(* C11: cls_seg / conv_seg_forward on n parameter vectors and a feature map *)
(* of B images gives exactly n*B logits rows, rows [k*B, (k+1)*B) being the *)
(* classification of the B images under the k-th vector; the weight part    *)
(* (first W entries) and the bias part (last B entries) of a vector are     *)
(* disjoint and cover it; with one vector equal to the flattened conv_seg   *)
(* parameters the result is the ordinary conv_seg classification.           *)
C11_SampledLogitsLayout ==
    hret.op = "cls_seg" =>
        LET B == Len(feats)
            n == Len(hret.z)
        IN  /\ Len(hret.logits) = n * B
            /\ \A k \in 1..n :
                /\ Len(hret.z[k]) = w_numel + b_numel
                /\ PySliceTo(hret.z[k], w_numel) \o PySliceLast(hret.z[k], b_numel) = hret.z[k]
            /\ \A i \in 1..(n * B) :
                hret.logits[i] = RowUnder(hret.z[SampleOfRow(i, B)], feats[ImageOfRow(i, B)])
            /\ (n = 1 /\ hret.z[1] = FlatParams(conv_seg)) =>
                   hret.logits = conv_seg_plain(feats)

C11_Witness ==
    /\ hret.op = "cls_seg"
    /\ Len(hret.z) = 2
    /\ hret.z[1] # hret.z[2]
    /\ Len(feats) = 2
    /\ channels = 2
    /\ num_classes = 2
    /\ hret.logits[1] # hret.logits[3]

(* C12: forward_test calls forward with the sample count nsamples_test,     *)
(* which is 1 whatever nsamples_train is, and returns the logits alone,     *)
(* without the Jacobian sums; forward_train calls forward with              *)
(* nsamples_train.                                                          *)
C12_ForwardTestUsesOneSample ==
    /\ nsamples_test = 1
    /\ hret.op = "forward_train" => hret.n = nsamples_train
    /\ (hret.op = "forward_test" /\ hret.err = "") =>
        /\ hret.n = nsamples_test
        /\ ~hret.with_jacobians

\* the "loss" terms accumulated in the returned dict
LossTermsOf(name) == {hret.loss[name][t] : t \in 1..Len(hret.loss[name])}

(* C13: in losses, when a sampler is configured and some configured loss is *)
(* evidential the call raises NotImplementedError and returns no dict; and  *)
(* in a returned dict the sampler's weight went to every non-evidential     *)
(* loss and to no evidential loss.                                          *)
C13_SamplerWithEdlRaises ==
    hret.op = "forward_train" =>
        /\ (sampler /\ \E j \in 1..Len(loss_decode.losses) : IsEdlName(loss_decode.losses[j]))
               => hret.err = "NotImplementedError"
        /\ (sampler /\ hret.err = "") =>
               \A name \in DOMAIN hret.loss : \A t \in LossTermsOf(name) :
                   t.term = "loss" => (t.weight.set <=> ~IsEdlName(t.name))

(* C14: in losses, for every configured loss whose name starts with         *)
(* "loss_edl" -- single loss or list, names shared or not -- a dict is      *)
(* returned in which the value under that name holds that loss's value and  *)
(* one mean of sum_log_jacobians for each loss of that name.                *)
C14_EdlLossesCarryJacobianMean ==
    hret.op = "forward_train" =>
        \A j \in 1..Len(loss_decode.losses) :
            LET name == loss_decode.losses[j]
            IN  IsEdlName(name) =>
                    /\ hret.err = ""
                    /\ name \in DOMAIN hret.loss
                    /\ \E t \in LossTermsOf(name) : t.term = "loss" /\ t.j = j
                    /\ Cardinality({t \in 1..Len(hret.loss[name]) :
                                       hret.loss[name][t].term = "mean_jacobian"})
                       = Cardinality({i \in 1..Len(loss_decode.losses) :
                                         loss_decode.losses[i] = name})

\* a batch of labels is the ground truth, repeated once per sample
AlignedLabels(label, rows) ==
    /\ Len(label) = rows
    /\ \A i \in 1..Len(label) :
           label[i] = gt_semantic_seg[ImageOfRow(i, Len(gt_semantic_seg))]

(* C15: in losses with n samples and B ground-truth maps the label map is   *)
(* repeated n times to n*B entries, the label of row i being the ground     *)
(* truth of image i mod B, the image logits row i was computed from; and    *)
(* what accuracy, the loss functions and the sampler are handed all has     *)
(* n*B rows.                                                                *)
C15_LabelsAlignedWithLogits ==
    (hret.op = "forward_train" /\ hret.err = "") =>
        LET B    == Len(gt_semantic_seg)
            rows == Len(hret.sum_log_jacobians) * B
        IN  /\ Len(hret.logits) = rows
            /\ \A i \in 1..Len(hret.logits) :
                   hret.logits[i] = RowUnder(hret.z[SampleOfRow(i, B)], feats[ImageOfRow(i, B)])
            /\ \A name \in DOMAIN hret.loss : \A t \in LossTermsOf(name) :
                   t.term \in {"loss", "accuracy"} =>
                       /\ Len(t.logit) = rows
                       /\ AlignedLabels(t.label, rows)
            /\ hret.seg_weight.set =>
                   /\ Len(hret.seg_weight.logit) = rows
                   /\ Len(hret.seg_weight.label) = rows

(***************************************************************************)
(* Properties of the hooks.                                                *)
(***************************************************************************)
(* C16: get_mode and get_epoch end with ValueError, and give no value, for  *)
(* a runner.mode other than 'train' and 'val'; for 'val' get_mode gives     *)
(* 'val' and get_epoch gives runner.epoch; for 'train' get_epoch gives      *)
(* runner.epoch + 1 and get_mode gives 'train' exactly when 'time' is a key *)
(* of the log buffer's output, else 'val'; neither changes the runner.      *)
C16_ModeAndEpochQueries ==
    /\ hook_ret.op \in {"get_mode", "get_epoch"} =>
        /\ hook_ret.before = RunnerState
        /\ hook_ret.err = (IF runner_mode \in {"train", "val"} THEN "" ELSE "ValueError")
    /\ hook_ret.op = "get_mode" =>
        hook_ret.value = (CASE runner_mode = "val" -> "val"
                            [] runner_mode = "train" /\ "time" \in log_output -> "train"
                            [] runner_mode = "train" /\ "time" \notin log_output -> "val"
                            [] OTHER -> "")
    /\ (hook_ret.op = "get_epoch" /\ hook_ret.err = "") =>
        hook_ret.epoch = (IF runner_mode = "train" THEN runner_epoch + 1 ELSE runner_epoch)

C16_Witness ==
    /\ hook_ret.op = "get_mode"
    /\ runner_mode = "train"
    /\ log_output = {"loss"}
    /\ hook_ret.value = "val"
    /\ runner_epoch = 1

(* C17: before_train_epoch sets the loss's epoch_num to runner.epoch, only  *)
(* when the loss has an epoch_num; after_epoch reports exactly when the     *)
(* loss's epoch_num differs from runner.epoch, raises nothing and changes   *)
(* neither counter; so after_epoch reports nothing when before_train_epoch  *)
(* has run and runner.epoch has not changed since.                          *)
C17_EpochDriftIsReportedOnly ==
    /\ hook_ret.op = "before_train_epoch" =>
        /\ hook_ret.err = ""
        /\ has_epoch_num => epoch_num = runner_epoch
        /\ ~has_epoch_num => hook_ret.before = RunnerState
        /\ runner_epoch = hook_ret.before[2]
    /\ hook_ret.op = "after_epoch" =>
        /\ hook_ret.err = ""
        /\ hook_ret.reported <=> (has_epoch_num /\ epoch_num # runner_epoch)
        /\ hook_ret.before = RunnerState
        /\ fresh => ~hook_ret.reported

C17_Witness ==
    /\ hook_ret.op = "after_epoch"
    /\ has_epoch_num
    /\ fresh
    /\ runner_epoch = 2
    /\ epoch_num = 2
    /\ reports = 1

(***************************************************************************)
(* Properties of the visualization and pre-evaluation steps.               *)
(***************************************************************************)
(* C18: every visual output single_gpu_test persists for a sample           *)
(* (prediction, ground truth, confidence / vacuity / dissonance maps, edge  *)
(* mask, OOD mask) has the ignore mask applied.                             *)
C18_VisualsAreMasked ==
    \A v \in shown : v.masked

\* the auxiliary pre-eval call the unwrapped model's configuration asks for
ExpectedAux(seg_logit, seg_gt) ==
    IF use_bags
    THEN pre_eval_custom(seg_logit, seg_gt, "softmax", "bags", <<>>)
    ELSE IF IsEdlLoss
    THEN pre_eval_custom(seg_logit, seg_gt, "edl", "logit2alpha",
                         [j \in 1..Len(seg_logit.logit_of) |->
                             IF pow_alpha
                             THEN (logit2evidence(LogitValues(seg_logit))[j] + 1)
                                  * (logit2evidence(LogitValues(seg_logit))[j] + 1)
                             ELSE logit2evidence(LogitValues(seg_logit))[j] + 1])
    ELSE pre_eval_custom(seg_logit, seg_gt, "softmax", logit2prob, <<>>)

(* C19: with pre_eval (and no visualization), both variants reach the loss  *)
(* configuration and the bags configuration through the unwrapped model:    *)
(* for a bare, a distributed-wrapped, an algorithm-wrapped and a doubly     *)
(* wrapped model alike, in the edl, softmax and bags branches, no batch     *)
(* ends in an error and the auxiliary pre-eval call issued for a sample is  *)
(* the one the configuration asks for, the same in both variants.           *)
C19_PreEvalSameForEveryWrapping ==
    (pre_eval /\ ~show /\ out_dir = "None") =>
        \A r \in Ranks :
            /\ pc[r] # "error"
            /\ \A j \in 1..Len(results[r]) :
                   results[r][j].oth =
                       ExpectedAux([logit_of |-> results[r][j].oth.logit_of],
                                   [gt_of |-> results[r][j].oth.gt_of])

(* C20: the evidential alpha the loop uses on logits x is                   *)
(* logit2evidence(x) + 1 without pow_alpha and its square with pow_alpha,   *)
(* in the visualization step and in the pre-evaluation step of both         *)
(* variants alike.                                                          *)
AlphaOf(x) ==
    [j \in 1..Len(x) |->
        IF pow_alpha
        THEN (logit2evidence(x)[j] + 1) * (logit2evidence(x)[j] + 1)
        ELSE logit2evidence(x)[j] + 1]

C20_AlphaSameOnEveryPath ==
    /\ \A v \in shown :
           v.what \in {"edl_u", "edl_diss", "edl_conf"} =>
               v.alpha = AlphaOf(LogitValues([logit_of |-> <<v.idx>>]))
    /\ \A r \in Ranks : \A j \in 1..Len(results[r]) :
           (results[r][j].kind = "tuple" /\ results[r][j].oth.mode = "edl") =>
               results[r][j].oth.alpha = AlphaOf(LogitValues(results[r][j].oth))

C20_Witness ==
    /\ variant = "single"
    /\ pre_eval
    /\ pow_alpha
    /\ pc[0] = "done"
    /\ Len(returned) = 2
    /\ returned[2].oth.mode = "edl"
    /\ returned[2].oth.alpha = <<25>>
    /\ \E v \in shown : v.what = "edl_u" /\ v.idx = 1 /\ v.alpha = <<25>>

(* C21: in single_gpu_test, visualization requested by show alone (no       *)
(* output directory) runs to completion for every sample as it does with    *)
(* out_dir set: the step ends without error, the prediction, the ground     *)
(* truth and the edge mask of every processed sample are rendered, and the  *)
(* sample's result is appended to the result list.                          *)
C21_ShowWithoutOutDirCompletes ==
    (variant = "single" /\ show /\ out_dir = "None" /\ model = <<"ddp", "seg">>) =>
        /\ pc[0] # "error"
        /\ err[0] # "TypeError"
        /\ Len(results[0]) = Len(inferred[0])
        /\ \A j \in 1..Len(inferred[0]) :
               \A what \in {"pred", "gt", "edge_mask"} :
                   \E v \in shown : v.what = what /\ v.idx = inferred[0][j]

=============================================================================
